---- MODULE Spec2Model ----
(***************************************************************************)
(* A model of plot.py: the CSV loader (getData), the consistency check     *)
(* (checkApproachNames), the two sort keys (rowKey, columnKey) and the     *)
(* renderer (makePlot, plotPie), run as the sequential pipeline of main(). *)
(*                                                                         *)
(* A Python str is a sequence of one-character strings, so that split(),   *)
(* the \d+ search, int() and float() are computed and not assumed.  A      *)
(* float is an integer number of 10^-FracDigits units.  None is the empty  *)
(* tuple and a float x is the one-element tuple <<x>>.                     *)
(***************************************************************************)
EXTENDS Integers, Sequences, FiniteSets, TLC

\* ------------------------------------------------------------------ bounds

\* The longest file read: the number of data rows after the header.
MaxRows == 4
\* The largest table handed to makePlot in SpecRender.
MaxNames == 3
MaxApproaches == 3
\* Decimal digits kept after the point of a float.
FracDigits == 1

\* ----------------------------------------------------------- Python values

RECURSIVE Pow10(_)
Pow10(n) == IF n = 0 THEN 1 ELSE 10 * Pow10(n - 1)

Unit == Pow10(FracDigits)

None == <<>>
Float(x) == <<x>>

\* The characters that occur, in code point order: str comparison is by
\* code point.
CodeTable ==
    << " ", "-", ".", "0", "1", "2", "3", "4", "5", "6", "7", "8", "9", ":",
       "A", "B", "C", "D", "E", "F", "G", "H", "I", "J", "K", "L", "M", "N",
       "O", "P", "Q", "R", "S", "T", "U", "V", "W", "X", "Y", "Z",
       "a", "b", "c", "d", "e", "f", "g", "h", "i", "j", "k", "l", "m", "n",
       "o", "p", "q", "r", "s", "t", "u", "v", "w", "x", "y", "z" >>

Ord(c) == CHOOSE i \in 1..Len(CodeTable) : CodeTable[i] = c

IsDigit(c) == c \in {"0", "1", "2", "3", "4", "5", "6", "7", "8", "9"}

IsSpace(c) == c = " "

DigitVal(c) == Ord(c) - Ord("0")

\* a < b for two str.
RECURSIVE StrLess(_, _)
StrLess(a, b) ==
    IF b = <<>> THEN FALSE
    ELSE IF a = <<>> THEN TRUE
    ELSE IF Head(a) = Head(b) THEN StrLess(Tail(a), Tail(b))
    ELSE Ord(Head(a)) < Ord(Head(b))

\* s.split(): the maximal runs of non-whitespace characters.
RECURSIVE SplitFrom(_, _, _)
SplitFrom(s, cur, out) ==
    IF s = <<>> THEN (IF cur = <<>> THEN out ELSE Append(out, cur))
    ELSE IF IsSpace(Head(s))
         THEN SplitFrom(Tail(s), <<>>, IF cur = <<>> THEN out ELSE Append(out, cur))
         ELSE SplitFrom(Tail(s), Append(cur, Head(s)), out)

SplitWhitespace(s) == SplitFrom(s, <<>>, <<>>)

\* s.split(sep): every separator splits, empty pieces are kept.
RECURSIVE SplitOnFrom(_, _, _, _)
SplitOnFrom(s, sep, cur, out) ==
    IF s = <<>> THEN Append(out, cur)
    ELSE IF Head(s) = sep
         THEN SplitOnFrom(Tail(s), sep, <<>>, Append(out, cur))
         ELSE SplitOnFrom(Tail(s), sep, Append(cur, Head(s)), out)

SplitOn(s, sep) == SplitOnFrom(s, sep, <<>>, <<>>)

\* DIGITS.search(s): the first maximal run of decimal digits of s, or the
\* empty string when there is no match (a match of \d+ is never empty).
RECURSIVE TakeDigits(_)
TakeDigits(s) ==
    IF s = <<>> \/ ~IsDigit(Head(s)) THEN <<>>
    ELSE <<Head(s)>> \o TakeDigits(Tail(s))

RECURSIVE DigitsSearch(_)
DigitsSearch(s) ==
    IF s = <<>> THEN <<>>
    ELSE IF IsDigit(Head(s)) THEN TakeDigits(s)
    ELSE DigitsSearch(Tail(s))

\* int(s) of a run of decimal digits.
RECURSIVE IntFrom(_, _)
IntFrom(s, acc) ==
    IF s = <<>> THEN acc ELSE IntFrom(Tail(s), 10 * acc + DigitVal(Head(s)))

Int10(s) == IntFrom(s, 0)

\* float(s) for the decimal literals [-]digits[.digits]; anything else
\* raises ValueError (ok = FALSE).
ParseFloat(s) ==
    LET neg   == s # <<>> /\ Head(s) = "-"
        body  == IF neg THEN Tail(s) ELSE s
        parts == SplitOn(body, ".")
        whole == parts[1]
        frac  == IF Len(parts) = 2 THEN parts[2] ELSE <<>>
        digs  == whole \o frac
        wellFormed ==
            /\ Len(parts) <= 2
            /\ digs # <<>>
            /\ \A i \in 1..Len(digs) : IsDigit(digs[i])
        mag   == (Int10(digs) * Unit) \div Pow10(Len(frac))
    IN  IF wellFormed
        THEN [ok |-> TRUE, val |-> IF neg THEN 0 - mag ELSE mag]
        ELSE [ok |-> FALSE, val |-> 0]

\* ----------------------------------------------------------------- strings

Serum == <<"S", "e", "r", "u", "m">>
Saliva == <<"S", "a", "l", "i", "v", "a">>
Plasma == <<"P", "l", "a", "s", "m", "a">>
Native == <<"n", "a", "t", "i", "v", "e">>
Cap == <<"c", "a", "p">>
Pcr == <<"p", "c", "r">>
Sp == <<" ">>

SerumNative == Serum \o Sp \o Native
SerumCap == Serum \o Sp \o Cap
SalivaNative == Saliva \o Sp \o Native
PlasmaCap == Plasma \o Sp \o Cap
\* Two blanks between the tokens: another str, the same rowKey.
SerumNative2 == Serum \o Sp \o Sp \o Native
SerumPcr == Serum \o Sp \o Pcr

Orf10A12T == <<"O", "R", "F", "1", "0", ":", "A", "1", "2", "T">>
Orf2B100C == <<"O", "R", "F", "2", ":", "B", "1", "0", "0", "C">>
Orf2A5G == <<"O", "R", "F", "2", ":", "A", "5", "G">>
\* Two runs of digits in each token, of which the first counts: the ORF and
\* the site of Orf2A5G, so another str of the same columnKey.
Orf2b1A5T7 == <<"O", "R", "F", "2", "b", "1", ":", "A", "5", "T", "7">>
Orf1Y2435K == <<"O", "R", "F", "1", ":", "Y", "2", "4", "3", "5", "K">>
\* No colon; no digit in the ORF token.
Orf3 == <<"O", "R", "F", "3">>
OrfXA5G == <<"O", "R", "F", "X", ":", "A", "5", "G">>

Empty == <<>>
P50 == <<"5", "0">>
P12p5 == <<"1", "2", ".", "5">>
P150 == <<"1", "5", "0">>
PMinus5 == <<"-", "5">>
Pabc == <<"a", "b", "c">>

\* ------------------------------------------------------------ the sort keys

\* ["native", "cap"]
Methods == <<Native, Cap>>

\* list.index(x), 0-based, for x in the list.
ListIndex(list, x) == (CHOOSE i \in 1..Len(list) : list[i] = x) - 1

BoolToInt(b) == IF b THEN 1 ELSE 0

KeyError(kind) == [ok |-> FALSE, err |-> kind, key |-> <<>>]
KeyOk(k) == [ok |-> TRUE, err |-> "", key |-> k]

\* rowKey with the tissue test inverted: Serum rows last.
RowKeySerumLast(name) ==
    LET toks == SplitWhitespace(name)
    IN  IF Len(toks) # 2 THEN KeyError("ValueError")
        ELSE IF \A i \in 1..Len(Methods) : Methods[i] # toks[2]
             THEN KeyError("ValueError")
             ELSE KeyOk(<< BoolToInt(toks[1] = Serum), toks[1],
                           ListIndex(Methods, toks[2]) >>)

RowKey(name) ==
    LET toks == SplitWhitespace(name)
    IN  IF Len(toks) # 2 THEN KeyError("ValueError")
        ELSE IF \A i \in 1..Len(Methods) : Methods[i] # toks[2]
             THEN KeyError("ValueError")
             ELSE KeyOk(<< BoolToInt(toks[1] # Serum), toks[1],
                           ListIndex(Methods, toks[2]) >>)

\* k1 < k2 for two (int, str, int) tuples.
RowKeyLess(k1, k2) ==
    \/ k1[1] < k2[1]
    \/ /\ k1[1] = k2[1]
       /\ \/ StrLess(k1[2], k2[2])
          \/ k1[2] = k2[2] /\ k1[3] < k2[3]

\* columnKey returning (position, orfNumber): the site sorts first.
ColumnKeySwapped(name) ==
    LET parts == SplitOn(name, ":")
    IN  IF Len(parts) # 2 THEN KeyError("ValueError")
        ELSE IF DigitsSearch(parts[1]) = <<>> \/ DigitsSearch(parts[2]) = <<>>
             THEN KeyError("AttributeError")
             ELSE KeyOk(<< Int10(DigitsSearch(parts[2])),
                           Int10(DigitsSearch(parts[1])) >>)

ColumnKey(name) ==
    LET parts == SplitOn(name, ":")
    IN  IF Len(parts) # 2 THEN KeyError("ValueError")
        ELSE IF DigitsSearch(parts[1]) = <<>> \/ DigitsSearch(parts[2]) = <<>>
             THEN KeyError("AttributeError")
             ELSE KeyOk(<< Int10(DigitsSearch(parts[1])),
                           Int10(DigitsSearch(parts[2])) >>)

\* k1 < k2 for two (int, int) tuples.
ColumnKeyLess(k1, k2) ==
    \/ k1[1] < k2[1]
    \/ k1[1] = k2[1] /\ k1[2] < k2[2]

\* The keys sorted() computes first, one for each item.
RowKeys(items) == [i \in 1..Len(items) |-> RowKey(items[i])]
ColumnKeys(items) == [i \in 1..Len(items) |-> ColumnKey(items[i])]

KeysOk(keys) == \A i \in 1..Len(keys) : keys[i].ok

\* The first key that raises ends the sort.
FirstKeyError(keys) ==
    LET i == CHOOSE j \in 1..Len(keys) :
                 /\ ~keys[j].ok
                 /\ \A k \in 1..(j - 1) : keys[k].ok
    IN  keys[i].err

\* The pairs <<i, j>> with the key of item i less than the key of item j.
RowKeyOrder(items) ==
    {p \in (1..Len(items)) \X (1..Len(items)) :
        RowKeyLess(RowKey(items[p[1]]).key, RowKey(items[p[2]]).key)}
ColumnKeyOrder(items) ==
    {p \in (1..Len(items)) \X (1..Len(items)) :
        ColumnKeyLess(ColumnKey(items[p[1]]).key, ColumnKey(items[p[2]]).key)}

\* sorted(items, key=...): a stable sort, items of equal keys stay in the
\* order they came in.
Sorted(items, lt) ==
    LET Insert(x, s) ==
            LET later == {i \in 1..Len(s) : <<x, s[i]>> \in lt}
                pos == IF later = {} THEN Len(s) + 1
                       ELSE CHOOSE i \in later : \A j \in later : i <= j
            IN  SubSeq(s, 1, pos - 1) \o <<x>> \o SubSeq(s, pos, Len(s))
        f[i \in 0..Len(items)] ==
            IF i = 0 THEN <<>> ELSE Insert(i, f[i - 1])
    IN  [i \in 1..Len(items) |-> items[f[Len(items)][i]]]

\* The orders in which a set can be iterated.
Orders(S) ==
    {s \in [1..Cardinality(S) -> S] :
        \A i, j \in 1..Cardinality(S) : s[i] = s[j] => i = j}

\* ---------------------------------------------------------------- the state

VARIABLES
    pc,                \* where main() is
    header,            \* the first line of the file, once read
    rowsRead,          \* the data rows the reader has yielded so far
    result,            \* getData's dict of dicts: its keys in insertion order
    approaches,        \* the set checkApproachNames returned
    coords,            \* the dimensionalIterator: its dimensions and position
    sortedApproaches,  \* makePlot's sortedApproaches
    sortedNames,       \* sorted(data, key=columnKey) of the current outer pass
    ai,                \* the outer loop's position in sortedApproaches
    ni,                \* the inner loop's position in sortedNames
    calls,             \* the plotPie calls made, in order
    output,            \* the figures written to the output path
    exitCode,          \* <<>> while running, then <<status>>
    stderr,            \* what was reported on standard error
    prevCalls          \* the plotPie calls of an earlier run on the same table

vars == << pc, header, rowsRead, result, approaches, coords, sortedApproaches,
           sortedNames, ai, ni, calls, output, exitCode, stderr, prevCalls >>

\* ------------------------------------------------------------------ getData

Header == <<"Mutation", "sample", "%Mutation", "%Rest">>

EmptyDict == [keys |-> <<>>, map |-> <<>>]

DictHas(d, k) == \E i \in 1..Len(d.keys) : d.keys[i] = k

\* d[k] = v for an outer key: a new key goes last.
DictSet(d, k, v) ==
    [keys |-> IF DictHas(d, k) THEN d.keys ELSE Append(d.keys, k),
     map  |-> [x \in (DOMAIN d.map) \cup {k} |-> IF x = k THEN v ELSE d.map[x]]]

\* inner[k] = v.
InnerSet(inner, k, v) ==
    [x \in (DOMAIN inner) \cup {k} |-> IF x = k THEN v ELSE inner[x]]

\* The duplicate test left out.
NeverInResult(res, name, approach) == FALSE

\* approach in result[name]
ApproachInResult(res, name, approach) == approach \in DOMAIN res.map[name]

\* An empty percent field stored as the number zero.
StoredValueZero(percent) ==
    IF percent = Empty THEN Float(0) ELSE Float(ParseFloat(percent).val)

\* The value stored for a percent field that float() accepts.
StoredValue(percent) ==
    IF percent = Empty THEN None ELSE Float(ParseFloat(percent).val)

\* The body of getData's loop for one row: the table after it, and how it
\* ended ("" when the loop goes on).
RowStep(res, row) ==
    IF Len(row) # 4
    THEN [result |-> res, err |-> "ValueError", msg |-> <<>>]
    ELSE LET name == row[1]
             approach == row[2]
             percent == row[3]
             r1 == IF DictHas(res, name) THEN res ELSE DictSet(res, name, <<>>)
         IN  IF ApproachInResult(r1, name, approach)
             THEN [result |-> r1, err |-> "SystemExit",
                   msg |-> <<[kind |-> "found twice", args |-> <<approach, name>>]>>]
             ELSE IF percent # Empty /\ ~ParseFloat(percent).ok
             THEN [result |-> r1, err |-> "ValueError", msg |-> <<>>]
             ELSE [result |-> DictSet(r1, name,
                                 InnerSet(r1.map[name], approach, StoredValue(percent))),
                   err |-> "", msg |-> <<>>]

\* An uncaught exception: the traceback on standard error, exit status 1.
Raise(kind) ==
    /\ pc' = "failed"
    /\ exitCode' = <<1>>
    /\ stderr' = Append(stderr, [kind |-> kind, args |-> <<>>])

\* The header lines tried: the right one, one short of a column, one with
\* another column name.
HeaderPool ==
    { Header,
      <<"Mutation", "sample", "%Mutation">>,
      <<"Mutation", "approach", "%Mutation", "%Rest">> }

\* next(reader) and the assertion on the header; an empty file has no line.
ReadHeader ==
    /\ pc = "start"
    /\ \E lines \in {<<>>} \cup {<<h>> : h \in HeaderPool} :
          IF lines = <<>>
          THEN Raise("StopIteration") /\ UNCHANGED header
          ELSE /\ header' = lines[1]
               /\ IF lines[1] = Header
                  THEN pc' = "reading" /\ UNCHANGED << exitCode, stderr >>
                  ELSE Raise("AssertionError")
    /\ UNCHANGED << rowsRead, result, approaches, coords, sortedApproaches,
                    sortedNames, ai, ni, calls, output, prevCalls >>

\* One pass of the loop over the reader.
ReadRow(row) ==
    /\ pc = "reading"
    /\ Len(rowsRead) < MaxRows
    /\ rowsRead' = Append(rowsRead, row)
    /\ LET step == RowStep(result, row)
       IN  /\ result' = step.result
           /\ IF step.err = ""
              THEN UNCHANGED << pc, exitCode, stderr >>
              ELSE /\ pc' = "failed"
                   /\ exitCode' = <<1>>
                   /\ stderr' = IF step.err = "SystemExit"
                                THEN stderr \o step.msg
                                ELSE Append(stderr, [kind |-> step.err, args |-> <<>>])
    /\ UNCHANGED << header, approaches, coords, sortedApproaches, sortedNames,
                    ai, ni, calls, output, prevCalls >>

\* The reader is exhausted: getData returns.
EndOfFile ==
    /\ pc = "reading"
    /\ pc' = "loaded"
    /\ UNCHANGED << header, rowsRead, result, approaches, coords,
                    sortedApproaches, sortedNames, ai, ni, calls, output,
                    exitCode, stderr, prevCalls >>

\* ------------------------------------------------------- checkApproachNames

\* set(data[name])
ApproachSet(data, name) == DOMAIN data.map[name]

\* Only the sizes of the approach sets compared.
SameApproachCount(data) ==
    \A i \in 2..Len(data.keys) :
        Cardinality(ApproachSet(data, data.keys[i]))
            = Cardinality(ApproachSet(data, data.keys[1]))

\* The assertion holds for every name after the first.
SameApproaches(data) ==
    \A i \in 2..Len(data.keys) :
        ApproachSet(data, data.keys[i]) = ApproachSet(data, data.keys[1])

\* dimensionalIterator((rows, cols)): the coordinate it yields next, row by
\* row, and whether it has none left.
IterNew(rows, cols) == [rows |-> rows, cols |-> cols, n |-> 0]
IterExhausted(it) == it.n >= it.rows * it.cols
IterValue(it) == << it.n \div it.cols, it.n % it.cols >>
IterAdvance(it) == [it EXCEPT !.n = it.n + 1]

\* checkApproachNames(data), then rows, cols, the subplots and the iterator.
\* On an empty table the loop never binds approaches and the return raises.
CheckApproachNames ==
    /\ pc = "loaded"
    /\ IF result.keys = <<>>
       THEN Raise("UnboundLocalError") /\ UNCHANGED << approaches, coords >>
       ELSE IF ~SameApproaches(result)
       THEN Raise("AssertionError") /\ UNCHANGED << approaches, coords >>
       ELSE /\ approaches' = ApproachSet(result, result.keys[1])
            /\ coords' = IterNew(Cardinality(approaches'), Len(result.keys))
            /\ pc' = "checked"
            /\ UNCHANGED << exitCode, stderr >>
    /\ UNCHANGED << header, rowsRead, result, sortedApproaches, sortedNames,
                    ai, ni, calls, output, prevCalls >>

\* ----------------------------------------------------------------- makePlot

\* sortedApproaches = sorted(approaches, key=rowKey): the set is iterated in
\* an order its hashing decides.
SortApproaches ==
    /\ pc = "checked"
    /\ \E order \in Orders(approaches) :
          IF ~KeysOk(RowKeys(order))
          THEN /\ Raise(FirstKeyError(RowKeys(order)))
               /\ UNCHANGED << sortedApproaches, ai >>
          ELSE /\ sortedApproaches' = Sorted(order, RowKeyOrder(order))
               /\ ai' = 1
               /\ pc' = "outer"
               /\ UNCHANGED << exitCode, stderr >>
    /\ UNCHANGED << header, rowsRead, result, approaches, coords, sortedNames,
                    ni, calls, output, prevCalls >>

\* The head of one pass of the outer loop: sorted(data, key=columnKey).
SortNames ==
    /\ pc = "outer"
    /\ ai <= Len(sortedApproaches)
    /\ IF ~KeysOk(ColumnKeys(result.keys))
       THEN /\ Raise(FirstKeyError(ColumnKeys(result.keys)))
            /\ UNCHANGED << sortedNames, ni >>
       ELSE /\ sortedNames' = Sorted(result.keys, ColumnKeyOrder(result.keys))
            /\ ni' = 1
            /\ pc' = "inner"
            /\ UNCHANGED << exitCode, stderr >>
    /\ UNCHANGED << header, rowsRead, result, approaches, coords,
                    sortedApproaches, ai, calls, output, prevCalls >>

Hundred == 100 * Unit

\* plotPie with the row and the column taken for each other.
PanelTransposed(percent, row, col, approach, name) ==
    [row |-> col, col |-> row, approach |-> approach, name |-> name,
     title |-> IF col = 0 THEN <<name>> ELSE <<>>,
     ylabel |-> IF row = 0 THEN <<approach>> ELSE <<>>,
     axis |-> IF percent = None THEN "off" ELSE "on",
     pie |-> IF percent = None THEN <<>>
             ELSE << percent[1], Hundred - percent[1] >>]

\* plotPie: what is drawn in ax[row][col].
Panel(percent, row, col, approach, name) ==
    [row |-> row, col |-> col, approach |-> approach, name |-> name,
     title |-> IF row = 0 THEN <<name>> ELSE <<>>,
     ylabel |-> IF col = 0 THEN <<approach>> ELSE <<>>,
     axis |-> IF percent = None THEN "off" ELSE "on",
     pie |-> IF percent = None THEN <<>>
             ELSE << percent[1], Hundred - percent[1] >>]

\* An inner pass that draws nothing for a missing percentage and leaves
\* its coordinate in the iterator.
PlotPieSkipNone ==
    /\ pc = "inner"
    /\ ni <= Len(sortedNames)
    /\ LET approach == sortedApproaches[ai]
           name == sortedNames[ni]
       IN  IF approach \notin DOMAIN result.map[name]
           THEN Raise("KeyError") /\ UNCHANGED << coords, calls, ai, ni >>
           ELSE IF result.map[name][approach] = None
           THEN /\ UNCHANGED << coords, calls, exitCode, stderr >>
                /\ IF ni < Len(sortedNames)
                   THEN ni' = ni + 1 /\ UNCHANGED << pc, ai >>
                   ELSE ni' = ni + 1 /\ ai' = ai + 1 /\ pc' = "outer"
           ELSE IF IterExhausted(coords)
           THEN Raise("StopIteration") /\ UNCHANGED << coords, calls, ai, ni >>
           ELSE /\ calls' = Append(calls,
                        Panel(result.map[name][approach], IterValue(coords)[1],
                              IterValue(coords)[2], approach, name))
                /\ coords' = IterAdvance(coords)
                /\ UNCHANGED << exitCode, stderr >>
                /\ IF ni < Len(sortedNames)
                   THEN ni' = ni + 1 /\ UNCHANGED << pc, ai >>
                   ELSE ni' = ni + 1 /\ ai' = ai + 1 /\ pc' = "outer"
    /\ UNCHANGED << header, rowsRead, result, approaches, sortedApproaches,
                    sortedNames, output, prevCalls >>

\* One pass of the inner loop: next(coords), then plotPie.
PlotPie ==
    /\ pc = "inner"
    /\ ni <= Len(sortedNames)
    /\ LET approach == sortedApproaches[ai]
           name == sortedNames[ni]
       IN  IF IterExhausted(coords)
           THEN Raise("StopIteration") /\ UNCHANGED << coords, calls, ai, ni >>
           ELSE IF approach \notin DOMAIN result.map[name]
           THEN /\ Raise("KeyError")
                /\ coords' = IterAdvance(coords)
                /\ UNCHANGED << calls, ai, ni >>
           ELSE /\ calls' = Append(calls,
                        Panel(result.map[name][approach], IterValue(coords)[1],
                              IterValue(coords)[2], approach, name))
                /\ coords' = IterAdvance(coords)
                /\ UNCHANGED << exitCode, stderr >>
                /\ IF ni < Len(sortedNames)
                   THEN ni' = ni + 1 /\ UNCHANGED << pc, ai >>
                   ELSE ni' = ni + 1 /\ ai' = ai + 1 /\ pc' = "outer"
    /\ UNCHANGED << header, rowsRead, result, approaches, sortedApproaches,
                    sortedNames, output, prevCalls >>

\* The figure written as soon as the approaches are sorted.
SaveFigEarly ==
    /\ pc = "outer"
    /\ output' = Append(output, calls)
    /\ pc' = "done"
    /\ exitCode' = <<0>>
    /\ UNCHANGED << header, rowsRead, result, approaches, coords,
                    sortedApproaches, sortedNames, ai, ni, calls, stderr,
                    prevCalls >>

\* The outer loop is over: plt.savefig(output), and main() returns.
SaveFig ==
    /\ pc = "outer"
    /\ ai > Len(sortedApproaches)
    /\ output' = Append(output, calls)
    /\ pc' = "done"
    /\ exitCode' = <<0>>
    /\ UNCHANGED << header, rowsRead, result, approaches, coords,
                    sortedApproaches, sortedNames, ai, ni, calls, stderr,
                    prevCalls >>

\* The program run once more on the same table.
Rerun ==
    /\ pc = "done"
    /\ prevCalls = <<>>
    /\ prevCalls' = calls
    /\ pc' = "loaded"
    /\ approaches' = {}
    /\ coords' = IterNew(0, 0)
    /\ sortedApproaches' = <<>>
    /\ sortedNames' = <<>>
    /\ ai' = 0
    /\ ni' = 0
    /\ calls' = <<>>
    /\ exitCode' = <<>>
    /\ UNCHANGED << header, rowsRead, result, output, stderr >>

\* ------------------------------------------------------- the whole pipeline

\* The rows a file is made of: every pair of two names and two approaches,
\* measured or not, and one row for each way a row can be wrong or odd: a
\* percentage above 100, one below 0, one float() rejects, a name without a
\* colon, a name without a digit, a method rowKey does not know, an empty
\* line.
RowPool ==
    { <<n, a, p, P50>> : n \in {Orf1Y2435K, Orf2A5G},
                         a \in {SerumNative, SerumCap},
                         p \in {Empty, P12p5} }
    \cup { <<Orf1Y2435K, SerumNative, P150, P50>>,
           <<Orf2A5G, SerumCap, PMinus5, P50>>,
           <<Orf1Y2435K, SerumCap, Pabc, P50>>,
           <<Orf3, SerumNative, P50, P50>>,
           <<OrfXA5G, SerumNative, P50, P50>>,
           <<Orf1Y2435K, SerumPcr, P50, P50>>,
           <<>> }

Init ==
    /\ pc = "start"
    /\ header = <<>>
    /\ rowsRead = <<>>
    /\ result = EmptyDict
    /\ approaches = {}
    /\ coords = IterNew(0, 0)
    /\ sortedApproaches = <<>>
    /\ sortedNames = <<>>
    /\ ai = 0
    /\ ni = 0
    /\ calls = <<>>
    /\ output = <<>>
    /\ exitCode = <<>>
    /\ stderr = <<>>
    /\ prevCalls = <<>>

Next ==
    \/ ReadHeader
    \/ \E row \in RowPool : ReadRow(row)
    \/ EndOfFile
    \/ CheckApproachNames
    \/ SortApproaches
    \/ SortNames
    \/ PlotPie
    \/ SaveFig

Spec == Init /\ [][Next]_vars

\* ------------------------------------------------- makePlot on a loaded table

NamePool == {Orf10A12T, Orf2B100C, Orf2A5G, Orf2b1A5T7}

ApproachPool == <<SerumNative, SerumCap, SalivaNative, PlasmaCap, SerumNative2>>

\* The file of a full table: a row for every name, in the given order, and
\* every approach; every third percentage is missing.
FileRows(names, apps) ==
    [k \in 1..(Len(names) * Len(apps)) |->
        << names[((k - 1) \div Len(apps)) + 1],
           apps[((k - 1) % Len(apps)) + 1],
           IF k % 3 = 2 THEN Empty ELSE P12p5,
           P50 >>]

\* getData's loop over all the rows of a file without a wrong row.
RECURSIVE LoadFrom(_, _)
LoadFrom(res, rows) ==
    IF rows = <<>> THEN res
    ELSE LoadFrom(RowStep(res, Head(rows)).result, Tail(rows))

NameLists ==
    UNION { Orders(S) : S \in {T \in SUBSET NamePool :
                                  Cardinality(T) \in 1..MaxNames} }

ApproachLists ==
    { SelectSeq(ApproachPool, LAMBDA a : a \in S) :
        S \in {T \in SUBSET {ApproachPool[i] : i \in 1..Len(ApproachPool)} :
                  Cardinality(T) \in 1..MaxApproaches} }

\* The state in which getData has returned the table of such a file.
InitLoaded ==
    /\ pc = "loaded"
    /\ header = Header
    /\ \E names \in NameLists, apps \in ApproachLists :
          /\ rowsRead = FileRows(names, apps)
          /\ result = LoadFrom(EmptyDict, FileRows(names, apps))
    /\ approaches = {}
    /\ coords = IterNew(0, 0)
    /\ sortedApproaches = <<>>
    /\ sortedNames = <<>>
    /\ ai = 0
    /\ ni = 0
    /\ calls = <<>>
    /\ output = <<>>
    /\ exitCode = <<>>
    /\ stderr = <<>>
    /\ prevCalls = <<>>

NextRender ==
    \/ CheckApproachNames
    \/ SortApproaches
    \/ SortNames
    \/ PlotPie
    \/ SaveFig

SpecRender == InitLoaded /\ [][NextRender]_vars

NextTwice ==
    \/ CheckApproachNames
    \/ SortApproaches
    \/ SortNames
    \/ PlotPie
    \/ SaveFig
    \/ Rerun

SpecTwice == InitLoaded /\ [][NextTwice]_vars

\* ------------------------------------------------------------ the properties

\* What the properties read off the file and the calls.
Pair(row) == << row[1], row[2] >>
FullRows == {i \in 1..Len(rowsRead) : Len(rowsRead[i]) = 4}
FileNames == {rowsRead[i][1] : i \in FullRows}
FileApproaches == {rowsRead[i][2] : i \in FullRows}
FileApproachesOf(name) == {rowsRead[i][2] : i \in {j \in FullRows : rowsRead[j][1] = name}}
Returned == pc \in {"loaded", "checked", "outer", "inner", "done"}
Validated == pc \in {"checked", "outer", "inner", "done"}
LastError == IF stderr = <<>> THEN "" ELSE stderr[Len(stderr)].kind
TissueOf(approach) == SplitWhitespace(approach)[1]
MethodOf(approach) == SplitWhitespace(approach)[2]
KnownMethod(approach) ==
    /\ Len(SplitWhitespace(approach)) = 2
    /\ MethodOf(approach) \in {Native, Cap}
Colons(name) == {i \in 1..Len(name) : name[i] = ":"}
WellFormedName(name) ==
    /\ Cardinality(Colons(name)) = 1
    /\ \E i \in 1..Len(name) : IsDigit(name[i]) /\ \A c \in Colons(name) : i < c
    /\ \E i \in 1..Len(name) : IsDigit(name[i]) /\ \A c \in Colons(name) : i > c
OrfNumberOf(name) == Int10(DigitsSearch(SubSeq(name, 1, (CHOOSE c \in Colons(name) : TRUE) - 1)))
PositionOf(name) == Int10(DigitsSearch(SubSeq(name, (CHOOSE c \in Colons(name) : TRUE) + 1, Len(name))))
PanelsOf(approach, name) ==
    {k \in 1..Len(calls) : calls[k].approach = approach /\ calls[k].name = name}
GridRows == Cardinality(approaches)
GridCols == Len(result.keys)

\* C1: when the run ends well, plotPie was called once for every pair of an
\* approach name and a mutation name of the file, (number of approach names)
\* x (number of mutation names) times in all; and no pair is ever drawn twice.
C1_OnePanelPerPair ==
    /\ \A a \in FileApproaches, n \in FileNames : Cardinality(PanelsOf(a, n)) <= 1
    /\ pc = "done" =>
          /\ Len(calls) = Cardinality(FileApproaches) * Cardinality(FileNames)
          /\ \A a \in FileApproaches, n \in FileNames : Cardinality(PanelsOf(a, n)) = 1
          /\ \A k \in 1..Len(calls) :
                calls[k].approach \in FileApproaches /\ calls[k].name \in FileNames

C1_Witness ==
    /\ pc = "done"
    /\ Cardinality(FileApproaches) = 2
    /\ Cardinality(FileNames) = 2
    /\ \E k \in 1..Len(calls) : calls[k].axis = "off"

\* A file getData and the checks of makePlot find nothing wrong with.
InputValid ==
    /\ header = Header
    /\ \A i, j \in FullRows : Pair(rowsRead[i]) = Pair(rowsRead[j]) => i = j
    /\ FullRows = 1..Len(rowsRead)
    /\ \A n \in FileNames : FileApproachesOf(n) = FileApproaches
    /\ \A a \in FileApproaches : KnownMethod(a)
    /\ \A n \in FileNames : WellFormedName(n)

\* C2: load, validate, render, save, in that order.  A run that failed has a
\* non-zero exit status, drew no panel and wrote no file.  A panel is drawn,
\* and the file written, only for a file with the right header, no pair
\* twice, the same approaches for every mutation, known methods and
\* well-formed mutation names.  The file is written at most once, when the
\* run is over and every panel of the grid is drawn.
C2_Pipeline ==
    /\ pc = "failed" => exitCode # <<>> /\ exitCode[1] # 0 /\ calls = <<>> /\ output = <<>>
    /\ pc # "failed" /\ pc # "done" => exitCode = <<>>
    /\ pc = "done" => exitCode = <<0>> /\ Len(output) = 1
    /\ calls # <<>> => InputValid /\ Validated /\ pc # "checked"
    /\ Len(output) <= 1
    /\ output # <<>> =>
          /\ pc = "done"
          /\ InputValid
          /\ output[1] = calls
          /\ Len(calls) = GridRows * GridCols

C2_Witness ==
    /\ pc = "failed"
    /\ LastError = "AttributeError"
    /\ Len(rowsRead) >= 2

\* C3: a row whose (mutation, approach) pair was already read ends getData
\* there: the message on standard error names the approach and the mutation,
\* the exit status is 1, and the table keeps the value of the first row.  So
\* a pair is never in two rows that were both stored, and when getData has
\* returned every pair of the file is in exactly one row.
C3_DuplicateIsFatal ==
    /\ \A i, j \in FullRows :
          i < j /\ Pair(rowsRead[i]) = Pair(rowsRead[j]) =>
             /\ j = Len(rowsRead)
             /\ pc = "failed"
             /\ exitCode = <<1>>
             /\ stderr = << [kind |-> "found twice",
                             args |-> << rowsRead[j][2], rowsRead[j][1] >>] >>
             /\ result.map[rowsRead[i][1]][rowsRead[i][2]]
                    = (IF rowsRead[i][3] = Empty THEN None
                       ELSE Float(ParseFloat(rowsRead[i][3]).val))
    /\ Returned =>
          /\ FullRows = 1..Len(rowsRead)
          /\ \A i, j \in FullRows : Pair(rowsRead[i]) = Pair(rowsRead[j]) => i = j

C3_Witness ==
    /\ pc = "failed"
    /\ LastError = "found twice"
    /\ \E i \in FullRows :
          /\ i < Len(rowsRead)
          /\ Pair(rowsRead[i]) = Pair(rowsRead[Len(rowsRead)])
          /\ rowsRead[i][3] # rowsRead[Len(rowsRead)][3]

C5_LoadRoundTrip ==
    Returned =>
       \A i \in 1..Len(rowsRead) :
          LET row == rowsRead[i]
          IN  /\ Len(row) = 4
              /\ DictHas(result, row[1])
              /\ row[2] \in DOMAIN result.map[row[1]]
              /\ LET v == result.map[row[1]][row[2]]
                 IN  /\ row[3] = Empty => v = None /\ v # Float(0)
                     /\ row[3] # Empty =>
                           v # None /\ v = Float(ParseFloat(row[3]).val)
                     /\ row[3] = P12p5 => 2 * v[1] = 25 * Unit
                     /\ row[3] = P150 => v[1] = 150 * Unit
                     /\ row[3] = PMinus5 => v[1] + 5 * Unit = 0

C5_Witness ==
    /\ pc = "loaded"
    /\ \E i \in 1..Len(rowsRead) : rowsRead[i][3] = Empty
    /\ \E i \in 1..Len(rowsRead) : rowsRead[i][3] = P12p5

\* C6: when getData has returned, every percentage of the table that is not
\* None lies in [0, 100], and both slices of every pie drawn are >= 0.
C6_PercentInRange ==
    /\ Returned =>
          \A i \in 1..Len(result.keys) :
             \A a \in ApproachSet(result, result.keys[i]) :
                LET v == result.map[result.keys[i]][a]
                IN  v # None => 0 <= v[1] /\ v[1] <= Hundred
    /\ \A k \in 1..Len(calls) :
          calls[k].pie # <<>> => calls[k].pie[1] >= 0 /\ calls[k].pie[2] >= 0

\* C7: sortedApproaches holds the approaches of the table, every Serum
\* approach before every other one, the other tissues in ascending order of
\* the tissue string, and native before cap within a tissue; {"Serum
\* native", "Serum cap", "Saliva native"} comes out as ["Serum native",
\* "Serum cap", "Saliva native"].
C7_RowOrder ==
    pc \in {"outer", "inner", "done"} =>
       /\ Len(sortedApproaches) = Cardinality(approaches)
       /\ {sortedApproaches[i] : i \in 1..Len(sortedApproaches)} = approaches
       /\ \A i, j \in 1..Len(sortedApproaches) :
             i < j =>
                LET a == sortedApproaches[i]
                    b == sortedApproaches[j]
                IN  /\ TissueOf(b) = Serum => TissueOf(a) = Serum
                    /\ TissueOf(a) # Serum => ~StrLess(TissueOf(b), TissueOf(a))
                    /\ TissueOf(a) = TissueOf(b) =>
                          ~(MethodOf(a) = Cap /\ MethodOf(b) = Native)
       /\ approaches = {SerumNative, SerumCap, SalivaNative} =>
             sortedApproaches = <<SerumNative, SerumCap, SalivaNative>>

C7_Witness ==
    /\ pc = "done"
    /\ approaches = {SerumNative, SerumCap, SalivaNative}
    /\ sortedApproaches = <<SerumNative, SerumCap, SalivaNative>>

\* C8: sorted(data, key=columnKey) holds the mutation names of the table in
\* ascending order of (number of the ORF, number of the site), both read as
\* integers; {"ORF10:A12T", "ORF2:B100C", "ORF2:A5G"} comes out as
\* ["ORF2:A5G", "ORF2:B100C", "ORF10:A12T"].
C8_ColumnOrder ==
    pc \in {"inner", "done"} =>
       /\ Len(sortedNames) = Len(result.keys)
       /\ {sortedNames[i] : i \in 1..Len(sortedNames)}
             = {result.keys[i] : i \in 1..Len(result.keys)}
       /\ \A i, j \in 1..Len(sortedNames) :
             i < j =>
                LET a == sortedNames[i]
                    b == sortedNames[j]
                IN  \/ OrfNumberOf(a) < OrfNumberOf(b)
                    \/ /\ OrfNumberOf(a) = OrfNumberOf(b)
                       /\ PositionOf(a) <= PositionOf(b)
       /\ {result.keys[i] : i \in 1..Len(result.keys)}
             = {Orf10A12T, Orf2B100C, Orf2A5G} =>
             sortedNames = <<Orf2A5G, Orf2B100C, Orf10A12T>>

C8_Witness ==
    /\ pc = "done"
    /\ result.keys = <<Orf10A12T, Orf2B100C, Orf2A5G>>
    /\ sortedNames = <<Orf2A5G, Orf2B100C, Orf10A12T>>

\* C9: two runs on the same table make the same plotPie calls, in the same
\* order and at the same grid positions.
C9_SameRendering ==
    pc = "done" /\ prevCalls # <<>> => calls = prevCalls

\* C10: the k-th plotPie call draws at the k-th position of the grid taken
\* row by row, inside the grid, the approach of that row in sortedApproaches
\* and the mutation of that column in the sorted names; the panels of row 0
\* carry the mutation name as title and those of column 0 the approach as
\* label; the iterator has yielded one coordinate per call and never more
\* than rows x cols; when the run is over every position holds one panel.
C10_GridPlacement ==
    /\ coords.n = Len(calls)
    /\ coords.n <= coords.rows * coords.cols
    /\ LastError # "StopIteration"
    /\ \A k \in 1..Len(calls) :
          LET c == calls[k]
          IN  /\ c.row = (k - 1) \div GridCols
              /\ c.col = (k - 1) % GridCols
              /\ 0 <= c.row /\ c.row < GridRows
              /\ 0 <= c.col /\ c.col < GridCols
              /\ c.approach = sortedApproaches[c.row + 1]
              /\ c.name = sortedNames[c.col + 1]
              /\ c.title = (IF c.row = 0 THEN <<c.name>> ELSE <<>>)
              /\ c.ylabel = (IF c.col = 0 THEN <<c.approach>> ELSE <<>>)
    /\ pc = "done" =>
          \A r \in 0..(GridRows - 1), c \in 0..(GridCols - 1) :
             Cardinality({k \in 1..Len(calls) :
                             calls[k].row = r /\ calls[k].col = c}) = 1

C10_Witness ==
    /\ pc = "done"
    /\ GridRows = 2
    /\ GridCols = 3
    /\ Len(calls) = 6

====
